---- MODULE Spec2Model ----
(***************************************************************************)
(* Model of the aggregation stage of the survey pipeline:                  *)
(*   - aggregation_column_method.lambda_handler   (SpecColumn)             *)
(*   - aggregation_top2_method.calc_top_two       (SpecTop2)               *)
(*   - aggregation_bricks_splitter_wrangler       (SpecBricks)             *)
(* A table is a sequence of rows; a row is a function from column names    *)
(* to values.  pandas' missing value is the model value NaN.               *)
(***************************************************************************)
EXTENDS Integers, Sequences, FiniteSets, TLC

VARIABLES
    cm_pc,        \* column method: "start" | "done"
    cm_event,     \* column method: the event (input_json and the five parameters)
    cm_result,    \* column method: the value the handler returns
    cm_again,     \* column method: the value returned for its own output, None before
    t2_pc,        \* top two: position in calc_top_two
    t2_event,     \* top two: the event (the input record list)
    t2_data,      \* top two: the dataframe `data`
    t2_loop,      \* top two: the loop variables of calc_top_two
    t2_ranked,    \* top two: the (period, county) pairs the county loop has ranked, in order
    t2_result,    \* top two: the value the handler returns
    bw_pc,               \* bricks wrangler: position in lambda_handler
    bw_input,            \* bricks wrangler: the frame get_dataframe returned
    bw_receipt_handler,  \* bricks wrangler: the receipt handle get_dataframe returned
    bw_data,             \* bricks wrangler: the dataframe `data`
    bw_payload,          \* bricks wrangler: the payload passed to the method
    bw_json_response,    \* bricks wrangler: the method's response, <<>> before it
    bw_region_output,    \* bricks wrangler: region_output
    bw_s3,               \* the files saved to S3, by file name
    bw_deleted,          \* the queue message has been deleted
    bw_notified,         \* the SNS notification has been sent
    bw_result,           \* bricks wrangler: how the invocation ended, <<>> before
    bw_calls,            \* bricks wrangler: the external calls made, in order
    cw_pc,               \* column wrangler: position in lambda_handler
    cw_event,            \* column wrangler: the event's RuntimeVariables
    cw_environ,          \* column wrangler: the names set in os.environ
    cw_data,             \* column wrangler: the frame read from S3
    cw_payload,          \* column wrangler: json_payload, <<>> before it is built
    cw_json_response,    \* column wrangler: the method's response, <<>> before it
    cw_saved,            \* the save_data calls that succeeded, in order
    cw_notified,         \* the SNS messages sent, in order
    cw_calls,            \* column wrangler: the external calls made, in order
    cw_result,           \* column wrangler: the value returned, <<>> before
    cw_exception,        \* column wrangler: the exception the try block raised, <<>> if none
    tw_pc,               \* top-two wrangler: position in lambda_handler
    tw_event,            \* top-two wrangler: which validation the event passes
    tw_data,             \* top-two wrangler: the frame read from S3
    tw_json_response,    \* top-two wrangler: the method's response, <<>> before it
    tw_saved,            \* the save_data calls that succeeded, in order
    tw_notified,         \* the SNS messages sent, in order
    tw_calls,            \* top-two wrangler: the external calls made, in order
    tw_result            \* top-two wrangler: how the invocation ended, <<>> before

cm_vars == <<cm_pc, cm_event, cm_result, cm_again>>
t2_vars == <<t2_pc, t2_event, t2_data, t2_loop, t2_ranked, t2_result>>
bw_vars == <<bw_pc, bw_input, bw_receipt_handler, bw_data, bw_payload, bw_json_response,
             bw_region_output, bw_s3, bw_deleted, bw_notified, bw_result, bw_calls>>
cw_vars == <<cw_pc, cw_event, cw_environ, cw_data, cw_payload, cw_json_response,
             cw_saved, cw_notified, cw_calls, cw_result, cw_exception>>
tw_vars == <<tw_pc, tw_event, tw_data, tw_json_response, tw_saved, tw_notified,
             tw_calls, tw_result>>
vars == <<cm_pc, cm_event, cm_result, cm_again, t2_pc, t2_event, t2_data, t2_loop, t2_ranked,
          t2_result,
          bw_pc, bw_input, bw_receipt_handler, bw_data, bw_payload, bw_json_response,
          bw_region_output, bw_s3, bw_deleted, bw_notified, bw_result, bw_calls,
          cw_pc, cw_event, cw_environ, cw_data, cw_payload, cw_json_response,
          cw_saved, cw_notified, cw_calls, cw_result, cw_exception,
          tw_pc, tw_event, tw_data, tw_json_response, tw_saved, tw_notified,
          tw_calls, tw_result>>

\* pandas' missing value (None, NaN, null), a number no column holds.
NaN == -1000
None == "None"

(***************************************************************************)
(* Generic helpers on tables                                               *)
(***************************************************************************)
Range(s) == {s[i] : i \in 1..Len(s)}

\* All sequences over S of length at most n.
SeqsUpTo(S, n) == UNION {[1..k -> S] : k \in 0..n}

RECURSIVE SumSeq(_)
SumSeq(s) == IF s = <<>> THEN 0 ELSE Head(s) + SumSeq(Tail(s))

RECURSIVE MaxSeq(_)
MaxSeq(s) ==
    IF Len(s) = 1 THEN s[1]
    ELSE LET m == MaxSeq(Tail(s)) IN IF s[1] >= m THEN s[1] ELSE m

\* The values of column col of table t, in row order.
Column(t, col) == [i \in 1..Len(t) |-> t[i][col]]

\* Lexicographic order on pairs of integers (pandas sorts the group keys).
PairLess(a, b) == a[1] < b[1] \/ (a[1] = b[1] /\ a[2] < b[2])

RECURSIVE SortPairs(_)
SortPairs(S) ==
    IF S = {} THEN <<>>
    ELSE LET m == CHOOSE x \in S : \A y \in S \ {x} : PairLess(x, y)
         IN <<m>> \o SortPairs(S \ {m})

(***************************************************************************)
(* aggregation_column_method.py                                            *)
(***************************************************************************)
MaxCmRows == 3

CmColumns == {"region", "county", "Q608_total"}
CmRegions == {1, 2}
CmCounties == {1, 2}
CmValues == {1, 2}

CmRows == {[c \in CmColumns |-> IF c = "region" THEN r
                                 ELSE IF c = "county" THEN k ELSE v] :
             r \in CmRegions, k \in CmCounties, v \in CmValues}

\* Reductions the requests name; "bogus" is no aggregate function of pandas.
CmAggregations == {"sum", "count", "nunique", "max", "bogus"}

CmEvents ==
    [input_json : SeqsUpTo(CmRows, MaxCmRows),
     total_column : {"Q608_total", "Q607_total"},
     additional_aggregated_column : {"region"},
     aggregated_column : {"county", "strata"},
     cell_total_column : {"county_total", "Q608_total", "county"},
     aggregation_type : CmAggregations]

\* The columns of pd.DataFrame(input_json): none for an empty record list.
FrameColumns(t) == IF t = <<>> THEN {} ELSE DOMAIN t[1]

\* Mutant of Reduce: the maximum computed as the plain count.
ReduceMaxAsCount(aggregation_type, values) ==
    CASE aggregation_type = "sum" -> SumSeq(values)
      [] aggregation_type = "count" -> Len(values)
      [] aggregation_type = "nunique" -> Cardinality(Range(values))
      [] aggregation_type = "max" -> Len(values)

\* Mutant of Reduce: the distinct count computed as the plain count.
ReduceNuniqueAsCount(aggregation_type, values) ==
    CASE aggregation_type = "sum" -> SumSeq(values)
      [] aggregation_type = "count" -> Len(values)
      [] aggregation_type = "nunique" -> Len(values)
      [] aggregation_type = "max" -> MaxSeq(values)

\* SeriesGroupBy.agg(aggregation_type) over the values of one group.
Reduce(aggregation_type, values) ==
    CASE aggregation_type = "sum" -> SumSeq(values)
      [] aggregation_type = "count" -> Len(values)
      [] aggregation_type = "nunique" -> Cardinality(Range(values))
      [] aggregation_type = "max" -> MaxSeq(values)

\* Mutant of GroupKeys: one key per input row, duplicates kept.
GroupKeysPerRow(t, add_col, agg_col) ==
    [i \in 1..Len(t) |-> <<t[i][add_col], t[i][agg_col]>>]

\* input_dataframe.groupby([additional_aggregated_column, aggregated_column]):
\* the group keys present in the frame, sorted.
GroupKeys(t, add_col, agg_col) ==
    SortPairs({<<t[i][add_col], t[i][agg_col]>> : i \in 1..Len(t)})

\* county_agg.agg({total_column: aggregation_type}).reset_index()
\* followed by rename(columns={total_column: cell_total_column}).
AggregateByColumn(t, add_col, agg_col, total_column, cell_total_column, aggregation_type) ==
    LET keys == GroupKeys(t, add_col, agg_col)
        InGroup(key, row) == row[add_col] = key[1] /\ row[agg_col] = key[2]
        Total(key) ==
            LET Member(row) == InGroup(key, row)
            IN Reduce(aggregation_type, Column(SelectSeq(t, Member), total_column))
    IN [i \in 1..Len(keys) |->
          [c \in {add_col, agg_col, cell_total_column} |->
              IF c = cell_total_column THEN Total(keys[i])
              ELSE IF c = add_col THEN keys[i][1]
              ELSE keys[i][2]]]

\* The exception class the try block of lambda_handler ends with, "" for none.
CmException(e) ==
    LET cols == FrameColumns(e.input_json) IN
    IF ~ ({e.additional_aggregated_column, e.aggregated_column} \subseteq cols)
        THEN "KeyError"                    \* groupby on an absent column
    ELSE IF e.total_column \notin cols
        THEN "KeyError"                    \* agg on an absent column
    ELSE IF e.aggregation_type \notin {"sum", "count", "nunique", "max"}
        THEN "AttributeError"              \* no such aggregate function
    ELSE IF e.cell_total_column \in {e.additional_aggregated_column, e.aggregated_column}
        THEN "ValueError"                  \* to_json: columns must be unique
    ELSE ""

\* Mutant of CmErrorMessage: every exception reported by the last handler.
CmErrorMessageGeneral(exc) ==
    <<"General Error", "in", "Aggregation by column - Method">>

\* The message the except clauses build, as the sequence of its parts:
\* `except KeyError` comes first, `except Exception` takes every other class.
CmErrorMessage(exc) ==
    IF exc = "KeyError" THEN <<"Key Error", "in", "Aggregation by column - Method">>
    ELSE <<"General Error", "in", "Aggregation by column - Method">>

\* What lambda_handler returns for event e.
ColumnMethodResult(e) ==
    LET exc == CmException(e) IN
    IF exc # ""
    THEN [success |-> FALSE, error |-> CmErrorMessage(exc)]
    ELSE [success |-> TRUE,
          data |-> AggregateByColumn(e.input_json, e.additional_aggregated_column,
                                     e.aggregated_column, e.total_column,
                                     e.cell_total_column, e.aggregation_type)]

CmInit ==
    /\ cm_pc = "start"
    /\ cm_event \in CmEvents
    /\ cm_result = None
    /\ cm_again = None

CmIdle ==
    /\ cm_pc = "idle"
    /\ cm_event = None
    /\ cm_result = None
    /\ cm_again = None

ColumnMethod ==
    /\ cm_pc = "start"
    /\ cm_result' = ColumnMethodResult(cm_event)
    /\ cm_pc' = "done"
    /\ UNCHANGED <<cm_event, cm_again, t2_vars, bw_vars, cw_vars, tw_vars>>

\* The request that feeds the handler its own output: the same group keys and
\* reduction, the renamed total column as the value column.
CmAgainEvent(e, data) ==
    [e EXCEPT !.input_json = data, !.total_column = e.cell_total_column]

\* A second invocation of lambda_handler, on the data of a successful first one.
ColumnMethodAgain ==
    /\ cm_pc = "done"
    /\ cm_result.success
    /\ cm_again' = ColumnMethodResult(CmAgainEvent(cm_event, cm_result.data))
    /\ cm_pc' = "again"
    /\ UNCHANGED <<cm_event, cm_result, t2_vars, bw_vars, cw_vars, tw_vars>>

(***************************************************************************)
(* aggregation_top2_method.py                                              *)
(***************************************************************************)
MaxT2Rows == 3

T2Periods == {1, 2}
T2Counties == {1, 2}
T2Regions == {1}
T2Values == {10, 20, 30}

T2Rows == [period : T2Periods, county : T2Counties, region : T2Regions,
           Q608_total : T2Values]

\* Insert v into the descending sequence s.
RECURSIVE InsertDesc(_, _)
InsertDesc(v, s) ==
    IF s = <<>> THEN <<v>>
    ELSE IF v >= Head(s) THEN <<v>> \o s
    ELSE <<Head(s)>> \o InsertDesc(v, Tail(s))

\* sort_values(by=['Q608_total'], ascending=False) on a column of values.
RECURSIVE SortDesc(_)
SortDesc(s) == IF s = <<>> THEN <<>> ELSE InsertDesc(Head(s), SortDesc(Tail(s)))

\* list(data.period.unique()): the distinct values in order of first appearance.
RECURSIVE Unique(_)
Unique(s) ==
    IF s = <<>> THEN <<>>
    ELSE LET u == Unique(SubSeq(s, 1, Len(s) - 1))
         IN IF s[Len(s)] \in Range(u) THEN u ELSE Append(u, s[Len(s)])

\* data.loc[data['period'] == period]['county'].tolist()
CountiesOfPeriod(data, period) ==
    LET InPeriod(row) == row.period = period IN Column(SelectSeq(data, InPeriod), "county")

\* tot2 sorted descending and cut to its first two rows (top_two).
TopTwo(data, period, county) ==
    LET InPartition(row) == row.period = period /\ row.county = county
        sorted == SortDesc(Column(SelectSeq(data, InPartition), "Q608_total"))
    IN SubSeq(sorted, 1, IF Len(sorted) >= 2 THEN 2 ELSE Len(sorted))

\* Mutant of SecondaryValue: the second value read from the first position.
SecondaryValueFirst(top_two, secondary_value) ==
    IF Len(top_two) >= 2 THEN top_two[1] ELSE secondary_value

\* secondary_value after the `if top_two.shape[0] >= 2` statement.
SecondaryValue(top_two, secondary_value) ==
    IF Len(top_two) >= 2 THEN top_two[2] ELSE secondary_value

\* The two data.loc[...] assignments of one pass of the county loop.
WriteContributors(data, period, county, primary_value, secondary_value) ==
    [i \in 1..Len(data) |->
        IF data[i].county = county /\ data[i].period = period
        THEN [data[i] EXCEPT !.largest_contributor = primary_value,
                             !.second_largest_contributor = secondary_value]
        ELSE data[i]]

\* data[['county', 'region', 'period', 'largest_contributor',
\*       'second_largest_contributor']]
T2Output(data) ==
    [i \in 1..Len(data) |->
        [c \in {"county", "region", "period", "largest_contributor",
                "second_largest_contributor"} |-> data[i][c]]]

\* The columns calc_top_two reads from its input.
T2Required == {"period", "county", "Q608_total", "region"}

\* Table t with column col left out of every record.
WithoutColumn(t, col) ==
    [i \in 1..Len(t) |-> [c \in (DOMAIN t[i]) \ {col} |-> t[i][c]]]

\* The record lists the handler is invoked with: complete ones, and ones that
\* lack one of the required columns.
T2Events ==
    SeqsUpTo(T2Rows, MaxT2Rows) \cup
    {WithoutColumn(t, col) : t \in SeqsUpTo(T2Rows, MaxT2Rows), col \in T2Required}

\* The message the except clause of class exc builds, as the sequence of its
\* parts.
T2ErrorMessage(exc) ==
    CASE exc = "AttributeError" ->
            <<"Bad data encountered", "in", "Aggregation Calc Top Two - Method">>
      [] exc = "KeyError" ->
            <<"Key Error", "in", "Aggregation Calc Top Two - Method">>
      [] OTHER ->
            <<"General Error", "in", "Aggregation Calc Top Two - Method">>

\* The try block raised exc.  The except clause reads context['aws_request_id']:
\* with a subscriptable context the message is built and the finally clause
\* returns the failure dict; with a context object that has no item access the
\* clause itself raises TypeError, error_message stays empty and the TypeError
\* leaves the handler.
T2Fail(exc) ==
    /\ t2_pc' = "done"
    /\ \E subscriptable \in BOOLEAN :
          t2_result' =
              IF subscriptable
              THEN [type |-> "dict",
                    value |-> [success |-> FALSE, error |-> T2ErrorMessage(exc)]]
              ELSE [type |-> "raised", value |-> "TypeError"]

\* `return response_json`: on success the handler returns the JSON string of
\* the table, not a dict.
T2SuccessResponse(table) == [type |-> "str", value |-> table]

T2NoLoop == [period_list |-> <<>>, pi |-> 0, temp_county_list |-> <<>>, ti |-> 0,
             county_list |-> <<>>, ci |-> 0, secondary_value |-> 0]

T2Init ==
    /\ t2_pc = "start"
    /\ t2_event \in T2Events
    /\ t2_data = <<>>
    /\ t2_loop = T2NoLoop
    /\ t2_ranked = <<>>
    /\ t2_result = None

T2Idle ==
    /\ t2_pc = "idle"
    /\ t2_event = None
    /\ t2_data = <<>>
    /\ t2_loop = T2NoLoop
    /\ t2_ranked = <<>>
    /\ t2_result = None

\* lambda_handler up to the period loop: the frame is built, the two columns
\* are zeroed and the period list is read.  A frame without a period column
\* (an empty record list gives one) has no period attribute.
T2Start ==
    /\ t2_pc = "start"
    /\ IF "period" \notin FrameColumns(t2_event)
       THEN /\ T2Fail("AttributeError")
            /\ UNCHANGED <<t2_data, t2_loop>>
       ELSE /\ t2_data' = [i \in 1..Len(t2_event) |->
                             [c \in DOMAIN t2_event[i] \cup
                                    {"largest_contributor", "second_largest contributor",
                                     "second_largest_contributor"} |->
                                 IF c \in DOMAIN t2_event[i] THEN t2_event[i][c]
                                 ELSE IF c = "second_largest_contributor" THEN NaN
                                 ELSE 0]]
            /\ t2_loop' = [T2NoLoop EXCEPT
                              !.period_list =
                                  Unique([i \in 1..Len(t2_event) |-> t2_event[i].period]),
                              !.pi = 1]
            /\ t2_pc' = "period"
            /\ UNCHANGED t2_result
    /\ UNCHANGED <<t2_event, t2_ranked, cm_vars, bw_vars, cw_vars, tw_vars>>

\* Head of `for period in period_list`.
T2Period ==
    /\ t2_pc = "period"
    /\ IF t2_loop.pi > Len(t2_loop.period_list)
       THEN /\ t2_pc' = "return"
            /\ UNCHANGED <<t2_loop, t2_result>>
       ELSE IF "county" \notin FrameColumns(t2_data)
       THEN /\ T2Fail("KeyError")
            /\ UNCHANGED t2_loop
       ELSE /\ t2_loop' = [t2_loop EXCEPT
                              !.county_list = <<>>,
                              !.temp_county_list =
                                  CountiesOfPeriod(t2_data, t2_loop.period_list[t2_loop.pi]),
                              !.ti = 1]
            /\ t2_pc' = "temp_county"
            /\ UNCHANGED t2_result
    /\ UNCHANGED <<t2_event, t2_data, t2_ranked, cm_vars, bw_vars, cw_vars, tw_vars>>

\* Head and first statement of `for temp_county in temp_county_list`.
T2TempCounty ==
    /\ t2_pc = "temp_county"
    /\ IF t2_loop.ti > Len(t2_loop.temp_county_list)
       THEN /\ t2_loop' = [t2_loop EXCEPT !.pi = @ + 1]
            /\ t2_pc' = "period"
       ELSE LET temp_county == t2_loop.temp_county_list[t2_loop.ti] IN
            /\ t2_loop' = [t2_loop EXCEPT
                              !.county_list =
                                  IF temp_county \in Range(@) THEN @
                                  ELSE Append(@, temp_county),
                              !.ci = 1]
            /\ t2_pc' = "county"
    /\ UNCHANGED <<t2_event, t2_data, t2_result, t2_ranked, cm_vars, bw_vars, cw_vars,
                   tw_vars>>

\* Head and body of `for county in county_list`, which is nested in the
\* temp_county loop.
T2County ==
    /\ t2_pc = "county"
    /\ IF t2_loop.ci > Len(t2_loop.county_list)
       THEN /\ t2_loop' = [t2_loop EXCEPT !.ti = @ + 1]
            /\ t2_pc' = "temp_county"
            /\ UNCHANGED <<t2_data, t2_result, t2_ranked>>
       ELSE IF "Q608_total" \notin FrameColumns(t2_data)
       THEN /\ T2Fail("KeyError")
            /\ UNCHANGED <<t2_data, t2_loop, t2_ranked>>
       ELSE LET period == t2_loop.period_list[t2_loop.pi]
                county == t2_loop.county_list[t2_loop.ci]
                top_two == TopTwo(t2_data, period, county)
                primary_value == top_two[1]
                secondary_value == SecondaryValue(top_two, t2_loop.secondary_value)
            IN /\ t2_data' = WriteContributors(t2_data, period, county,
                                               primary_value, secondary_value)
               /\ t2_loop' = [t2_loop EXCEPT !.secondary_value = secondary_value,
                                             !.ci = @ + 1]
               /\ t2_ranked' = Append(t2_ranked, <<period, county>>)
               /\ t2_pc' = "county"
               /\ UNCHANGED t2_result
    /\ UNCHANGED <<t2_event, cm_vars, bw_vars, cw_vars, tw_vars>>

\* calc_top_two returns the five columns; the handler returns response_json,
\* the JSON string of the records, and no dict.
T2Return ==
    /\ t2_pc = "return"
    /\ IF "region" \notin FrameColumns(t2_data)
       THEN T2Fail("KeyError")
       ELSE /\ t2_result' = T2SuccessResponse(T2Output(t2_data))
            /\ t2_pc' = "done"
    /\ UNCHANGED <<t2_event, t2_data, t2_loop, t2_ranked, cm_vars, bw_vars, cw_vars,
                   tw_vars>>

(***************************************************************************)
(* aggregation_bricks_splitter_wrangler.py: the row functions              *)
(***************************************************************************)
\* brick_type.keys(), in the order the dict literal lists them.
brick_keys == <<"clay", "concrete", "sandlime">>

brick_type == [b \in {"clay", "concrete", "sandlime"} |->
                  CASE b = "clay" -> 3 [] b = "concrete" -> 2 [] b = "sandlime" -> 4]

new_type == 1

\* The runtime variables of the runs modelled.
column_list == <<"X", "Y">>
unique_identifier == <<"brick_type", "enterprise_reference", "region">>
region_column == "region"
regionless_code == 9

\* check_type + "_" + current_column
Prefixed(brick, column) ==
    CASE brick = "clay" /\ column = "X" -> "clay_X"
      [] brick = "clay" /\ column = "Y" -> "clay_Y"
      [] brick = "concrete" /\ column = "X" -> "concrete_X"
      [] brick = "concrete" /\ column = "Y" -> "concrete_Y"
      [] brick = "sandlime" /\ column = "X" -> "sandlime_X"
      [] brick = "sandlime" /\ column = "Y" -> "sandlime_Y"

\* [brick + "_" + column for column in column_list for brick in brick_type.keys()]
questions_list ==
    LET n == Len(brick_keys)
    IN [i \in 1..(Len(column_list) * n) |->
           Prefixed(brick_keys[((i - 1) % n) + 1], column_list[((i - 1) \div n) + 1])]

\* The sum of row[c] over the columns c of the sequence cols.
RECURSIVE RowTotal(_, _)
RowTotal(row, cols) ==
    IF cols = <<>> THEN 0 ELSE row[Head(cols)] + RowTotal(row, Tail(cols))

\* Mutant of do_check: a row is empty only when every question column is 0.
do_check_all_zero(row, questions) ==
    \A i \in 1..Len(questions) : row[questions[i]] = 0

\* do_check
do_check(row, questions) == RowTotal(row, questions) = 0

\* total_for_type of one pass of the loop of calculate_row_type.
TotalForType(row, check_type, columns) ==
    RowTotal(row, [i \in 1..Len(columns) |-> Prefixed(check_type, columns[i])])

\* The loop of calculate_row_type over the brick types still to check; the
\* function falls off its end, returning None, when no total is positive.
RECURSIVE RowTypeFrom(_, _, _, _)
RowTypeFrom(row, keys, bricks, columns) ==
    IF keys = <<>> THEN NaN
    ELSE IF TotalForType(row, Head(keys), columns) > 0 THEN bricks[Head(keys)]
    ELSE RowTypeFrom(row, Tail(keys), bricks, columns)

\* Mutant of calculate_row_type: the brick types are tried in ascending id order.
calculate_row_type_by_id(row, bricks, columns) ==
    RowTypeFrom(row, <<"concrete", "clay", "sandlime">>, bricks, columns)

\* calculate_row_type
calculate_row_type(row, bricks, columns) ==
    RowTypeFrom(row, brick_keys, bricks, columns)

\* row with row[col] = value, the column added when the row lacks it.
SetColumn(row, col, value) ==
    [c \in DOMAIN row \cup {col} |-> IF c = col THEN value ELSE row[c]]

RECURSIVE CopyColumns(_, _, _)
CopyColumns(row, check_type, columns) ==
    IF columns = <<>> THEN row
    ELSE CopyColumns(SetColumn(row, Head(columns), row[Prefixed(check_type, Head(columns))]),
                     check_type, Tail(columns))

RECURSIVE SumColumnsFrom(_, _, _, _, _)
SumColumnsFrom(row, keys, bricks, columns, identifier) ==
    IF keys = <<>> THEN row
    ELSE SumColumnsFrom(IF row[identifier[1]] = bricks[Head(keys)]
                        THEN CopyColumns(row, Head(keys), columns)
                        ELSE row,
                        Tail(keys), bricks, columns, identifier)

\* Mutant of sum_columns: each generic column is the sum of the three
\* prefixed columns.
sum_columns_add(row, bricks, columns, identifier) ==
    IF row[identifier[1]] = NaN THEN row
    ELSE LET Added(c) == RowTotal(row, [i \in 1..Len(brick_keys) |->
                                          Prefixed(brick_keys[i], c)])
         IN [c \in DOMAIN row \cup Range(columns) |->
                IF c \in Range(columns) THEN Added(c) ELSE row[c]]

\* sum_columns
sum_columns(row, bricks, columns, identifier) ==
    SumColumnsFrom(row, brick_keys, bricks, columns, identifier)

\* The frame built from rows with differing columns: every row gets every
\* column, NaN where it had none.
AlignFrame(t) ==
    LET cols == UNION {DOMAIN t[i] : i \in 1..Len(t)}
    IN [i \in 1..Len(t) |->
           [c \in cols |-> IF c \in DOMAIN t[i] THEN t[i][c] ELSE NaN]]

\* data.drop([question], axis=1) for every question.
DropColumns(t, cols) ==
    [i \in 1..Len(t) |-> [c \in (DOMAIN t[i]) \ cols |-> t[i][c]]]

\* Lines 120-122: the zero_data column and the rows it keeps.
Prune(data) ==
    LET flagged == [i \in 1..Len(data) |->
                       SetColumn(data[i], "zero_data", do_check(data[i], questions_list))]
        Kept(row) == ~ row.zero_data
    IN SelectSeq(flagged, Kept)

\* Lines 127-128: the brick type of every row.
Classify(data) ==
    [i \in 1..Len(data) |->
        SetColumn(data[i], unique_identifier[1],
                  calculate_row_type(data[i], brick_type, column_list))]

\* Lines 132-137: the generic columns, then the prefixed columns dropped.
Fold(data) ==
    DropColumns(AlignFrame([i \in 1..Len(data) |->
                               sum_columns(data[i], brick_type, column_list,
                                           unique_identifier)]),
                Range(questions_list))

\* The sum of a column of a group, NaN skipped.
RECURSIVE SumSkipNaN(_)
SumSkipNaN(s) ==
    IF s = <<>> THEN 0
    ELSE (IF Head(s) = NaN THEN 0 ELSE Head(s)) + SumSkipNaN(Tail(s))

\* frame.groupby(keys).agg({column: "sum" ...}).reset_index() for two key
\* columns: rows with a NaN key are left out, the groups come out sorted.
GroupSum(t, keys, columns) ==
    LET HasKey(row) == row[keys[1]] # NaN /\ row[keys[2]] # NaN
        rows == SelectSeq(t, HasKey)
        ks == SortPairs({<<rows[i][keys[1]], rows[i][keys[2]]>> : i \in 1..Len(rows)})
        Total(k, col) ==
            LET Member(row) == row[keys[1]] = k[1] /\ row[keys[2]] = k[2]
            IN SumSkipNaN(Column(SelectSeq(rows, Member), col))
    IN [i \in 1..Len(ks) |->
           [c \in Range(keys) \cup Range(columns) |->
               IF c = keys[1] THEN ks[i][1]
               ELSE IF c = keys[2] THEN ks[i][2]
               ELSE Total(ks[i], c)]]

\* Mutant of RegionKeys: the region output grouped by every identifier column
\* but the last.
RegionKeysShort(identifier) == SubSeq(identifier, 1, 2)

\* unique_identifier[1:]
RegionKeys(identifier) == SubSeq(identifier, 2, Len(identifier))

\* unique_identifier[0:2]
BrickKeys(identifier) == SubSeq(identifier, 1, 2)

\* Lines 165-171: the region aggregation of the frame the method returned.
RegionAggregate(region_dataframe) ==
    GroupSum(region_dataframe, RegionKeys(unique_identifier), column_list)

\* Mutant of Recoded: every row, concrete ones too, joins the merged type.
RecodedAll(data) ==
    [i \in 1..Len(data) |-> [data[i] EXCEPT ![unique_identifier[1]] = new_type]]

\* Lines 185-186: the rows that are not concrete, recoded to new_type.
Recoded(data) ==
    LET NotConcrete(row) == row[unique_identifier[1]] # brick_type["concrete"]
        rows == SelectSeq(data, NotConcrete)
    IN [i \in 1..Len(rows) |-> [rows[i] EXCEPT ![unique_identifier[1]] = new_type]]

\* Lines 183-191: the aggregation by brick type.
BrickAggregate(data) ==
    GroupSum(data \o Recoded(data), BrickKeys(unique_identifier), column_list)

\* The columns a groupby/agg needs are in the frame.
HasColumns(t, keys, columns) ==
    (Range(keys) \cup Range(columns)) \subseteq FrameColumns(t)

(***************************************************************************)
(* aggregation_bricks_splitter_wrangler.py: lambda_handler                 *)
(***************************************************************************)
MaxBwRows == 3

BwRow(e, r, cx, cy, kx, ky, sx, sy) ==
    [enterprise_reference |-> e, region |-> r,
     clay_X |-> cx, clay_Y |-> cy, concrete_X |-> kx, concrete_Y |-> ky,
     sandlime_X |-> sx, sandlime_Y |-> sy]

\* The rows the input frames are made of: one block filled, no block filled,
\* two blocks filled, blocks that cancel, a negative block, a block whose
\* columns cancel.
BwRows ==
    { BwRow(1, 1,  7, 0,  0, 0,  0, 0),
      BwRow(1, 2,  0, 0,  0, 0,  0, 3),
      BwRow(1, 1,  0, 0,  2, 1,  0, 0),
      BwRow(2, 1,  0, 0,  0, 0,  0, 0),
      BwRow(2, 1,  0, 1,  5, 0,  0, 0),
      BwRow(2, 2,  1, 0, -1, 0,  0, 0),
      BwRow(1, 1, -1, 0,  0, 0,  0, 0),
      BwRow(2, 2,  1, -1, 0, 0,  2, 0),
      BwRow(2, 1,  0, 0,  0, 4,  1, 0) }

BwTables == SeqsUpTo(BwRows, MaxBwRows)

checkpoint == "checkpoint"

\* The table the region method is meant to return: every row, and every row
\* again under the regionless code.
AddRegionless(t, code, col) ==
    t \o [i \in 1..Len(t) |-> [t[i] EXCEPT ![col] = code]]

\* The responses the method may give to a payload: a failure, the table with
\* the regionless rows added, or the table as it was sent.
MethodResponses(payload) ==
    {[success |-> FALSE, error |-> "error in method"]}
    \cup {[success |-> TRUE, data |-> t] :
            t \in {AddRegionless(payload.data, payload.regionless_code,
                                 payload.region_column),
                   payload.data}}

\* The log of external calls after one more call: which function, on which
\* sink, and whether it returned (ok) or raised.
ExternalCall(calls, call, sink, ok) ==
    Append(calls, [call |-> call, sink |-> sink, ok |-> ok])

\* general_functions.handle_exception: the message built from the exception.
HandleException(exception, args) == <<exception, args, "Pre Aggregation Data Wrangler.">>

\* Mutant of MethodFailed: the success flag of the response is not looked at.
MethodFailedNever(json_response) == FALSE

\* `not json_response["success"]`
MethodFailed(json_response) == ~ json_response.success

\* Mutant of BwAfter: the notification is sent before the message is deleted.
BwAfterNotifyFirst(pc) ==
    CASE pc = "start" -> "read"
      [] pc = "read" -> "prune"
      [] pc = "prune" -> "classify"
      [] pc = "classify" -> "fold"
      [] pc = "fold" -> "invoke"
      [] pc = "invoke" -> "response"
      [] pc = "response" -> "save_region"
      [] pc = "save_region" -> "save_bricks"
      [] pc = "save_bricks" -> "notify"
      [] pc = "delete" -> "return"
      [] pc = "notify" -> "delete"
      [] pc = "return" -> "done"

\* The position after the statements at pc when none of them raised: the
\* order of the statements of the try block and the last return.
BwAfter(pc) ==
    CASE pc = "start" -> "read"
      [] pc = "read" -> "prune"
      [] pc = "prune" -> "classify"
      [] pc = "classify" -> "fold"
      [] pc = "fold" -> "invoke"
      [] pc = "invoke" -> "response"
      [] pc = "response" -> "save_region"
      [] pc = "save_region" -> "save_bricks"
      [] pc = "save_bricks" -> "delete"
      [] pc = "delete" -> "notify"
      [] pc = "notify" -> "return"
      [] pc = "return" -> "done"

\* Mutant of BwRaise: the failed statement is tried again.
BwRaiseRetry(exception, args) ==
    /\ bw_pc' = bw_pc
    /\ bw_result' = bw_result

\* The except and finally clauses: the invocation raises LambdaFailure.
BwRaise(exception, args) ==
    /\ bw_pc' = "failed"
    /\ bw_result' = <<[raised |-> "LambdaFailure",
                       error_message |-> HandleException(exception, args)]>>

BwInit ==
    /\ bw_pc = "start"
    /\ bw_input = <<>>
    /\ bw_receipt_handler = None
    /\ bw_data = <<>>
    /\ bw_payload = [data |-> <<>>]
    /\ bw_json_response = <<>>
    /\ bw_region_output = <<>>
    /\ bw_s3 = [f \in {} |-> <<>>]
    /\ bw_deleted = FALSE
    /\ bw_notified = FALSE
    /\ bw_result = <<>>
    /\ bw_calls = <<>>

BwIdle ==
    /\ bw_pc = "idle"
    /\ bw_input = <<>>
    /\ bw_receipt_handler = None
    /\ bw_data = <<>>
    /\ bw_payload = [data |-> <<>>]
    /\ bw_json_response = <<>>
    /\ bw_region_output = <<>>
    /\ bw_s3 = [f \in {} |-> <<>>]
    /\ bw_deleted = FALSE
    /\ bw_notified = FALSE
    /\ bw_result = <<>>
    /\ bw_calls = <<>>

\* Lines 53-101: the parameters are validated and read.
BwStart ==
    /\ bw_pc = "start"
    /\ \/ /\ bw_pc' = BwAfter(bw_pc)
          /\ UNCHANGED bw_result
       \/ BwRaise("ValueError", "Error validating environment params")
    /\ UNCHANGED <<bw_input, bw_receipt_handler, bw_data, bw_payload, bw_json_response,
                   bw_region_output, bw_s3, bw_deleted, bw_notified, bw_calls, cm_vars, t2_vars,
                   cw_vars, tw_vars>>

\* Lines 104-107: aws_functions.get_dataframe.
BwGetDataframe ==
    /\ bw_pc = "read"
    /\ \/ /\ \E t \in BwTables, rh \in {None, "receipt"} :
                /\ bw_input' = t
                /\ bw_data' = t
                /\ bw_receipt_handler' = rh
          /\ bw_pc' = BwAfter(bw_pc)
          /\ UNCHANGED bw_result
          /\ bw_calls' = ExternalCall(bw_calls, "get_dataframe", "sqs_queue_url", TRUE)
       \/ /\ BwRaise("ClientError", "get_dataframe")
          /\ bw_calls' = ExternalCall(bw_calls, "get_dataframe", "sqs_queue_url", FALSE)
          /\ UNCHANGED <<bw_input, bw_data, bw_receipt_handler>>
    /\ UNCHANGED <<bw_payload, bw_json_response, bw_region_output, bw_s3,
                   bw_deleted, bw_notified, cm_vars, t2_vars, cw_vars, tw_vars>>

\* Lines 111-122: rows with no data are pruned.  On a frame without rows
\* data.apply returns a frame, and the column assignment may raise.
BwPrune ==
    /\ bw_pc = "prune"
    /\ \/ /\ bw_data' = Prune(bw_data)
          /\ bw_pc' = BwAfter(bw_pc)
          /\ UNCHANGED bw_result
       \/ /\ bw_data = <<>>
          /\ BwRaise("ValueError", "zero_data")
          /\ UNCHANGED bw_data
    /\ UNCHANGED <<bw_input, bw_receipt_handler, bw_payload, bw_json_response,
                   bw_region_output, bw_s3, bw_deleted, bw_notified, bw_calls, cm_vars, t2_vars,
                   cw_vars, tw_vars>>

\* Lines 124-128: the brick type of every row.
BwClassify ==
    /\ bw_pc = "classify"
    /\ \/ /\ bw_data' = Classify(bw_data)
          /\ bw_pc' = BwAfter(bw_pc)
          /\ UNCHANGED bw_result
       \/ /\ bw_data = <<>>
          /\ BwRaise("ValueError", "brick_type")
          /\ UNCHANGED bw_data
    /\ UNCHANGED <<bw_input, bw_receipt_handler, bw_payload, bw_json_response,
                   bw_region_output, bw_s3, bw_deleted, bw_notified, bw_calls, cm_vars, t2_vars,
                   cw_vars, tw_vars>>

\* Lines 130-150: the columns are folded and the payload is built.
BwFold ==
    /\ bw_pc = "fold"
    /\ bw_data' = Fold(bw_data)
    /\ bw_payload' = [data |-> Fold(bw_data), regionless_code |-> regionless_code,
                      region_column |-> region_column]
    /\ bw_pc' = BwAfter(bw_pc)
    /\ UNCHANGED <<bw_input, bw_receipt_handler, bw_json_response, bw_region_output,
                   bw_s3, bw_deleted, bw_notified, bw_result, bw_calls, cm_vars, t2_vars,
                   cw_vars, tw_vars>>

\* Lines 153-160: the method is invoked and its payload read.
BwInvoke ==
    /\ bw_pc = "invoke"
    /\ \/ /\ \E r \in MethodResponses(bw_payload) : bw_json_response' = <<r>>
          /\ bw_pc' = BwAfter(bw_pc)
          /\ UNCHANGED bw_result
          /\ bw_calls' = ExternalCall(bw_calls, "invoke", "method_name", TRUE)
       \/ /\ BwRaise("ClientError", "invoke")
          /\ bw_calls' = ExternalCall(bw_calls, "invoke", "method_name", FALSE)
          /\ UNCHANGED bw_json_response
    /\ UNCHANGED <<bw_input, bw_receipt_handler, bw_data, bw_payload, bw_region_output,
                   bw_s3, bw_deleted, bw_notified, cm_vars, t2_vars, cw_vars, tw_vars>>

\* Lines 162-173: a failed method raises MethodFailure, else the returned
\* frame is aggregated by region.
BwResponse ==
    /\ bw_pc = "response"
    /\ LET json_response == bw_json_response[1] IN
       IF MethodFailed(json_response)
       THEN /\ BwRaise("MethodFailure", json_response.error)
            /\ UNCHANGED bw_region_output
       ELSE IF "data" \notin DOMAIN json_response
       THEN /\ BwRaise("KeyError", "data")
            /\ UNCHANGED bw_region_output
       ELSE IF ~ HasColumns(json_response.data, RegionKeys(unique_identifier), column_list)
       THEN /\ BwRaise("KeyError", "groupby")
            /\ UNCHANGED bw_region_output
       ELSE /\ bw_region_output' = RegionAggregate(json_response.data)
            /\ bw_pc' = BwAfter(bw_pc)
            /\ UNCHANGED bw_result
    /\ UNCHANGED <<bw_input, bw_receipt_handler, bw_data, bw_payload, bw_json_response,
                   bw_s3, bw_deleted, bw_notified, bw_calls, cm_vars, t2_vars,
                   cw_vars, tw_vars>>

\* Lines 175-178: aws_functions.save_to_s3 of the region output.
BwSaveRegion ==
    /\ bw_pc = "save_region"
    /\ \/ /\ bw_s3' = [f \in DOMAIN bw_s3 \cup {"out_file_name_region"} |->
                          IF f = "out_file_name_region" THEN bw_region_output ELSE bw_s3[f]]
          /\ bw_pc' = BwAfter(bw_pc)
          /\ UNCHANGED bw_result
          /\ bw_calls' = ExternalCall(bw_calls, "save_to_s3", "out_file_name_region", TRUE)
       \/ /\ BwRaise("ClientError", "save_to_s3")
          /\ bw_calls' = ExternalCall(bw_calls, "save_to_s3", "out_file_name_region", FALSE)
          /\ UNCHANGED bw_s3
    /\ UNCHANGED <<bw_input, bw_receipt_handler, bw_data, bw_payload, bw_json_response,
                   bw_region_output, bw_deleted, bw_notified, cm_vars, t2_vars, cw_vars, tw_vars>>

\* Lines 180-197: the aggregation by brick type and its save.
BwSaveBricks ==
    /\ bw_pc = "save_bricks"
    /\ IF ~ HasColumns(bw_data, BrickKeys(unique_identifier), column_list)
       THEN /\ BwRaise("KeyError", "groupby")
            /\ UNCHANGED <<bw_data, bw_s3, bw_calls>>
       ELSE /\ bw_data' = Recoded(bw_data)
            /\ \/ /\ bw_s3' = [f \in DOMAIN bw_s3 \cup {"out_file_name_bricks"} |->
                                  IF f = "out_file_name_bricks"
                                  THEN BrickAggregate(bw_data)
                                  ELSE bw_s3[f]]
                  /\ bw_pc' = BwAfter(bw_pc)
                  /\ UNCHANGED bw_result
                  /\ bw_calls' = ExternalCall(bw_calls, "save_to_s3",
                                              "out_file_name_bricks", TRUE)
               \/ /\ BwRaise("ClientError", "save_to_s3")
                  /\ bw_calls' = ExternalCall(bw_calls, "save_to_s3",
                                              "out_file_name_bricks", FALSE)
                  /\ UNCHANGED bw_s3
    /\ UNCHANGED <<bw_input, bw_receipt_handler, bw_payload, bw_json_response,
                   bw_region_output, bw_deleted, bw_notified, cm_vars, t2_vars, cw_vars, tw_vars>>

\* Lines 199-200: the queue message is deleted when there is a receipt handle.
BwDeleteMessage ==
    /\ bw_pc = "delete"
    /\ \/ /\ bw_receipt_handler # None
          /\ bw_deleted' = TRUE
          /\ bw_pc' = BwAfter(bw_pc)
          /\ UNCHANGED bw_result
          /\ bw_calls' = ExternalCall(bw_calls, "delete_message", "sqs_queue_url", TRUE)
       \/ /\ bw_receipt_handler # None
          /\ BwRaise("ClientError", "delete_message")
          /\ bw_calls' = ExternalCall(bw_calls, "delete_message", "sqs_queue_url", FALSE)
          /\ UNCHANGED bw_deleted
       \/ /\ bw_receipt_handler = None
          /\ bw_pc' = BwAfter(bw_pc)
          /\ UNCHANGED <<bw_deleted, bw_result, bw_calls>>
    /\ UNCHANGED <<bw_input, bw_receipt_handler, bw_data, bw_payload, bw_json_response,
                   bw_region_output, bw_s3, bw_notified, cm_vars, t2_vars, cw_vars, tw_vars>>

\* Lines 202-205: aws_functions.send_sns_message.
BwSendSns ==
    /\ bw_pc = "notify"
    /\ \/ /\ bw_notified' = TRUE
          /\ bw_pc' = BwAfter(bw_pc)
          /\ UNCHANGED bw_result
          /\ bw_calls' = ExternalCall(bw_calls, "send_sns_message", "sns_topic_arn", TRUE)
       \/ /\ BwRaise("ClientError", "send_sns_message")
          /\ bw_calls' = ExternalCall(bw_calls, "send_sns_message", "sns_topic_arn", FALSE)
          /\ UNCHANGED bw_notified
    /\ UNCHANGED <<bw_input, bw_receipt_handler, bw_data, bw_payload, bw_json_response,
                   bw_region_output, bw_s3, bw_deleted, cm_vars, t2_vars, cw_vars, tw_vars>>

\* Lines 215-217: the handler returns.
BwReturn ==
    /\ bw_pc = "return"
    /\ bw_result' = <<[success |-> TRUE, checkpoint |-> checkpoint]>>
    /\ bw_pc' = BwAfter(bw_pc)
    /\ UNCHANGED <<bw_input, bw_receipt_handler, bw_data, bw_payload, bw_json_response,
                   bw_region_output, bw_s3, bw_deleted, bw_notified, bw_calls, cm_vars, t2_vars,
                   cw_vars, tw_vars>>

(***************************************************************************)
(* aggregation_column_wrangler.py                                          *)
(***************************************************************************)
MaxCwRows == 2

\* The rows of the frame kept in S3: the method's columns and a period.
CwRows == [period : {1, 2}, region : {1}, county : {1, 2}, Q608_total : {1, 2}]

CwTables == SeqsUpTo(CwRows, MaxCwRows)

\* A period value int() does not parse.
BadPeriod == -1

\* The keys lambda_handler reads from event['RuntimeVariables'].
CwRuntimeKeys == {"period", "aggregation_type", "aggregated_column", "cell_total_column",
                  "total_column", "additional_aggregated_column", "period_column"}

\* The RuntimeVariables of the events: complete ones, and one without the
\* period.
CwEvents ==
    [period : {1, 2, BadPeriod}, aggregation_type : {"sum", "bogus"},
     aggregated_column : {"county"}, cell_total_column : {"county_total"},
     total_column : {"Q608_total"}, additional_aggregated_column : {"region"},
     period_column : {"period", "periods"}]
    \cup [aggregation_type : {"sum"},
          aggregated_column : {"county"}, cell_total_column : {"county_total"},
          total_column : {"Q608_total"}, additional_aggregated_column : {"region"},
          period_column : {"period"}]

\* The fields of InputSchema, all required.
InputSchema == {"checkpoint", "bucket_name", "in_file_name", "method_name",
                "out_file_name", "sns_topic_arn", "sqs_message_group_id",
                "sqs_queue_url"}

\* os.environ: every name set, or one missing.
CwEnvirons == {InputSchema, InputSchema \ {"method_name"}}

\* The exception classes a call into boto3 or es_aws_functions may raise.
ExternalExceptions == {"ClientError", "KeyError", "ValueError", "IncompleteReadError",
                       "Exception"}

\* Mutant of CwErrorMessage: a failed method reported like any other exception.
CwErrorMessageNoMethod(exc, args) ==
    CASE exc = "ValueError" ->
            <<"Parameter validation error", "in", "Aggregation by column - Wrangler", args>>
      [] exc = "ClientError" ->
            <<"AWS Error", "in", "Aggregation by column - Wrangler", args>>
      [] exc = "KeyError" ->
            <<"Key Error", "in", "Aggregation by column - Wrangler", args>>
      [] exc = "IncompleteReadError" ->
            <<"Incomplete Lambda response", "encountered in",
              "Aggregation by column - Wrangler", args>>
      [] OTHER ->
            <<"General Error", "in", "Aggregation by column - Wrangler", exc>>

\* Mutant of CwErrorMessage: no clause for ValueError.
CwErrorMessageNoValueError(exc, args) ==
    CASE exc = "ClientError" ->
            <<"AWS Error", "in", "Aggregation by column - Wrangler", args>>
      [] exc = "KeyError" ->
            <<"Key Error", "in", "Aggregation by column - Wrangler", args>>
      [] exc = "IncompleteReadError" ->
            <<"Incomplete Lambda response", "encountered in",
              "Aggregation by column - Wrangler", args>>
      [] exc = "MethodFailure" -> args
      [] OTHER ->
            <<"General Error", "in", "Aggregation by column - Wrangler", exc, args>>

\* error_message as the except clause of class exc builds it from e.args, as
\* the sequence of its parts; for MethodFailure it is the method's message.
CwErrorMessage(exc, args) ==
    CASE exc = "ValueError" ->
            <<"Parameter validation error", "in", "Aggregation by column - Wrangler", args>>
      [] exc = "ClientError" ->
            <<"AWS Error", "in", "Aggregation by column - Wrangler", args>>
      [] exc = "KeyError" ->
            <<"Key Error", "in", "Aggregation by column - Wrangler", args>>
      [] exc = "IncompleteReadError" ->
            <<"Incomplete Lambda response", "encountered in",
              "Aggregation by column - Wrangler", args>>
      [] exc = "MethodFailure" -> args
      [] OTHER ->
            <<"General Error", "in", "Aggregation by column - Wrangler", exc, args>>

\* Mutant of CwAfter: the notification is sent before the data is saved.
CwAfterNotifyFirst(pc) ==
    CASE pc = "start" -> "read"
      [] pc = "read" -> "filter"
      [] pc = "filter" -> "invoke"
      [] pc = "invoke" -> "response"
      [] pc = "response" -> "notify"
      [] pc = "notify" -> "save"
      [] pc = "save" -> "return"
      [] pc = "return" -> "done"

\* The position after the statements at pc when none of them raised: the
\* order of the statements of the try block and the last return.
CwAfter(pc) ==
    CASE pc = "start" -> "read"
      [] pc = "read" -> "filter"
      [] pc = "filter" -> "invoke"
      [] pc = "invoke" -> "response"
      [] pc = "response" -> "save"
      [] pc = "save" -> "notify"
      [] pc = "notify" -> "return"
      [] pc = "return" -> "done"

\* The except and finally clauses: a non-empty error_message is returned in a
\* failure dict; with an empty one the handler goes on to its last return.
CwRaise(exc, args) ==
    /\ cw_pc' = "done"
    /\ cw_exception' = <<[class |-> exc, args |-> args]>>
    /\ cw_result' =
          IF Len(CwErrorMessage(exc, args)) > 0
          THEN <<[success |-> FALSE, error |-> CwErrorMessage(exc, args)]>>
          ELSE <<[success |-> TRUE,
                  checkpoint |-> checkpoint]>>

CwInit ==
    /\ cw_pc = "start"
    /\ cw_event \in CwEvents
    /\ cw_environ \in CwEnvirons
    /\ cw_data = <<>>
    /\ cw_payload = <<>>
    /\ cw_json_response = <<>>
    /\ cw_saved = <<>>
    /\ cw_notified = <<>>
    /\ cw_calls = <<>>
    /\ cw_result = <<>>
    /\ cw_exception = <<>>

CwIdle ==
    /\ cw_pc = "idle"
    /\ cw_event = None
    /\ cw_environ = {}
    /\ cw_data = <<>>
    /\ cw_payload = <<>>
    /\ cw_json_response = <<>>
    /\ cw_saved = <<>>
    /\ cw_notified = <<>>
    /\ cw_calls = <<>>
    /\ cw_result = <<>>
    /\ cw_exception = <<>>

\* Lines 49-81: the run-time variables are read, the environment validated.
CwStart ==
    /\ cw_pc = "start"
    /\ IF ~ (CwRuntimeKeys \subseteq DOMAIN cw_event)
       THEN CwRaise("KeyError", "period")
       ELSE IF InputSchema \ cw_environ # {}
       THEN CwRaise("ValueError", "Error validating environment params")
       ELSE /\ cw_pc' = CwAfter(cw_pc)
            /\ UNCHANGED <<cw_result, cw_exception>>
    /\ UNCHANGED <<cw_event, cw_environ, cw_data, cw_payload, cw_json_response, cw_saved,
                   cw_notified, cw_calls, cm_vars, t2_vars, bw_vars, tw_vars>>

\* Line 84: aws_functions.read_dataframe_from_s3.
CwReadS3 ==
    /\ cw_pc = "read"
    /\ \/ /\ \E t \in CwTables : cw_data' = t
          /\ cw_pc' = CwAfter(cw_pc)
          /\ cw_calls' = ExternalCall(cw_calls, "read_dataframe_from_s3", "in_file_name", TRUE)
          /\ UNCHANGED <<cw_result, cw_exception>>
       \/ /\ \E exc \in ExternalExceptions : CwRaise(exc, "read_dataframe_from_s3")
          /\ cw_calls' = ExternalCall(cw_calls, "read_dataframe_from_s3", "in_file_name", FALSE)
          /\ UNCHANGED cw_data
    /\ UNCHANGED <<cw_event, cw_environ, cw_payload, cw_json_response, cw_saved,
                   cw_notified, cm_vars, t2_vars, bw_vars, tw_vars>>

\* data[data[period_column] == int(period)]
RowsOfPeriod(data, period_column, period) ==
    LET InPeriod(row) == row[period_column] = period IN SelectSeq(data, InPeriod)

\* Lines 87-99: the rows of the period are selected and the payload is built.
CwFilter ==
    /\ cw_pc = "filter"
    /\ IF cw_event.period_column \notin FrameColumns(cw_data)
       THEN /\ CwRaise("KeyError", cw_event.period_column)
            /\ UNCHANGED cw_payload
       ELSE IF cw_event.period = BadPeriod
       THEN /\ CwRaise("ValueError", "invalid literal for int()")
            /\ UNCHANGED cw_payload
       ELSE /\ cw_payload' =
                  <<[input_json |-> RowsOfPeriod(cw_data, cw_event.period_column,
                                                 cw_event.period),
                     total_column |-> cw_event.total_column,
                     additional_aggregated_column |->
                         cw_event.additional_aggregated_column,
                     aggregated_column |-> cw_event.aggregated_column,
                     cell_total_column |-> cw_event.cell_total_column,
                     aggregation_type |-> cw_event.aggregation_type]>>
            /\ cw_pc' = CwAfter(cw_pc)
            /\ UNCHANGED <<cw_result, cw_exception>>
    /\ UNCHANGED <<cw_event, cw_environ, cw_data, cw_json_response, cw_saved,
                   cw_notified, cw_calls, cm_vars, t2_vars, bw_vars, tw_vars>>

\* Lines 101-104: the method is invoked with the payload and its answer read;
\* the method is lambda_handler of aggregation_column_method.py.
CwInvoke ==
    /\ cw_pc = "invoke"
    /\ \/ /\ cw_json_response' = <<ColumnMethodResult(cw_payload[1])>>
          /\ cw_pc' = CwAfter(cw_pc)
          /\ cw_calls' = ExternalCall(cw_calls, "invoke", "method_name", TRUE)
          /\ UNCHANGED <<cw_result, cw_exception>>
       \/ /\ \E exc \in ExternalExceptions : CwRaise(exc, "invoke")
          /\ cw_calls' = ExternalCall(cw_calls, "invoke", "method_name", FALSE)
          /\ UNCHANGED cw_json_response
    /\ UNCHANGED <<cw_event, cw_environ, cw_data, cw_payload, cw_saved,
                   cw_notified, cm_vars, t2_vars, bw_vars, tw_vars>>

\* Lines 108-109: a response with success false raises MethodFailure.
CwResponse ==
    /\ cw_pc = "response"
    /\ IF ~ cw_json_response[1].success
       THEN CwRaise("MethodFailure", cw_json_response[1].error)
       ELSE /\ cw_pc' = CwAfter(cw_pc)
            /\ UNCHANGED <<cw_result, cw_exception>>
    /\ UNCHANGED <<cw_event, cw_environ, cw_data, cw_payload, cw_json_response, cw_saved,
                   cw_notified, cw_calls, cm_vars, t2_vars, bw_vars, tw_vars>>

\* Lines 111-112: aws_functions.save_data of the method's data.
CwSave ==
    /\ cw_pc = "save"
    /\ \/ /\ cw_saved' = Append(cw_saved, [file |-> <<cw_event.cell_total_column,
                                                      "out_file_name">>,
                                           data |-> cw_json_response[1].data])
          /\ cw_pc' = CwAfter(cw_pc)
          /\ cw_calls' = ExternalCall(cw_calls, "save_data", "out_file_name", TRUE)
          /\ UNCHANGED <<cw_result, cw_exception>>
       \/ /\ \E exc \in ExternalExceptions : CwRaise(exc, "save_data")
          /\ cw_calls' = ExternalCall(cw_calls, "save_data", "out_file_name", FALSE)
          /\ UNCHANGED cw_saved
    /\ UNCHANGED <<cw_event, cw_environ, cw_data, cw_payload, cw_json_response,
                   cw_notified, cm_vars, t2_vars, bw_vars, tw_vars>>

\* Lines 115-117: aws_functions.send_sns_message.
CwNotify ==
    /\ cw_pc = "notify"
    /\ \/ /\ cw_notified' = Append(cw_notified,
                                   [checkpoint |-> checkpoint,
                                    message |-> <<"Aggregation - ",
                                                  cw_event.aggregated_column, ".">>])
          /\ cw_pc' = CwAfter(cw_pc)
          /\ cw_calls' = ExternalCall(cw_calls, "send_sns_message", "sns_topic_arn", TRUE)
          /\ UNCHANGED <<cw_result, cw_exception>>
       \/ /\ \E exc \in ExternalExceptions : CwRaise(exc, "send_sns_message")
          /\ cw_calls' = ExternalCall(cw_calls, "send_sns_message", "sns_topic_arn", FALSE)
          /\ UNCHANGED cw_notified
    /\ UNCHANGED <<cw_event, cw_environ, cw_data, cw_payload, cw_json_response,
                   cw_saved, cm_vars, t2_vars, bw_vars, tw_vars>>

\* Lines 172-173: the handler returns the configured checkpoint.
CwReturn ==
    /\ cw_pc = "return"
    /\ cw_result' = <<[success |-> TRUE, checkpoint |-> checkpoint]>>
    /\ cw_pc' = CwAfter(cw_pc)
    /\ UNCHANGED <<cw_event, cw_environ, cw_data, cw_payload, cw_json_response, cw_saved,
                   cw_notified, cw_calls, cw_exception, cm_vars, t2_vars, bw_vars, tw_vars>>

(***************************************************************************)
(* aggregation_top2_wrangler.py                                            *)
(***************************************************************************)
MaxTwRows == 1

TwTables == SeqsUpTo(T2Rows, MaxTwRows)

\* The events and environments, by the first check of lines 62-82 they fail.
TwEvents == {"valid", "no_run_id", "bad_environment", "bad_runtime"}

\* What json.loads gives for the payload the function named method_name
\* answers with.  The top-two method of this repository answers with a
\* failure dict, with the JSON string of its table, or, when it raised, with
\* the error document of Lambda, which has no success key; a method that
\* follows the wrangler's protocol answers with a success dict carrying a
\* table.  The content of the table is not read by the wrangler.
TwMethodResponses(data) ==
    {[type |-> "dict",
      value |-> [success |-> FALSE, error |-> T2ErrorMessage("AttributeError")]],
     T2SuccessResponse(data),
     [type |-> "dict", value |-> [errorMessage |-> "TypeError", errorType |-> "TypeError"]],
     [type |-> "dict", value |-> [success |-> TRUE, data |-> data]]}

\* general_functions.handle_exception: the message built from the exception.
TwHandleException(exception, args) ==
    <<exception, args, "Aggregation Calc Top Two - Wrangler.">>

\* Mutant of TwRaise: the failure is returned as a dict and not raised.
TwRaiseReturnsFailure(exception, args) ==
    /\ tw_pc' = "failed"
    /\ tw_result' = <<[success |-> FALSE,
                       error |-> TwHandleException(exception, args)]>>

\* The except and finally clauses: the invocation raises LambdaFailure.
TwRaise(exception, args) ==
    /\ tw_pc' = "failed"
    /\ tw_result' = <<[raised |-> "LambdaFailure",
                       error_message |-> TwHandleException(exception, args)]>>

TwInit ==
    /\ tw_pc = "start"
    /\ tw_event \in TwEvents
    /\ tw_data = <<>>
    /\ tw_json_response = <<>>
    /\ tw_saved = <<>>
    /\ tw_notified = <<>>
    /\ tw_calls = <<>>
    /\ tw_result = <<>>

TwIdle ==
    /\ tw_pc = "idle"
    /\ tw_event = None
    /\ tw_data = <<>>
    /\ tw_json_response = <<>>
    /\ tw_saved = <<>>
    /\ tw_notified = <<>>
    /\ tw_calls = <<>>
    /\ tw_result = <<>>

\* Lines 62-103: run_id is read, environment and run-time variables validated.
TwStart ==
    /\ tw_pc = "start"
    /\ CASE tw_event = "no_run_id" -> TwRaise("KeyError", "run_id")
         [] tw_event = "bad_environment" ->
                TwRaise("ValueError", "Error validating environment params")
         [] tw_event = "bad_runtime" ->
                TwRaise("ValueError", "Error validating runtime params")
         [] OTHER -> /\ tw_pc' = "read"
                     /\ UNCHANGED tw_result
    /\ UNCHANGED <<tw_event, tw_data, tw_json_response, tw_saved, tw_notified, tw_calls,
                   cm_vars, t2_vars, bw_vars, cw_vars>>

\* Line 105: aws_functions.read_dataframe_from_s3.
TwReadS3 ==
    /\ tw_pc = "read"
    /\ \/ /\ \E t \in TwTables : tw_data' = t
          /\ tw_pc' = "invoke"
          /\ tw_calls' = ExternalCall(tw_calls, "read_dataframe_from_s3", "in_file_name", TRUE)
          /\ UNCHANGED tw_result
       \/ /\ \E exc \in ExternalExceptions : TwRaise(exc, "read_dataframe_from_s3")
          /\ tw_calls' = ExternalCall(tw_calls, "read_dataframe_from_s3", "in_file_name", FALSE)
          /\ UNCHANGED tw_data
    /\ UNCHANGED <<tw_event, tw_json_response, tw_saved, tw_notified,
                   cm_vars, t2_vars, bw_vars, cw_vars>>

\* Lines 110-130: the frame is serialised, the method invoked, its answer read.
TwInvoke ==
    /\ tw_pc = "invoke"
    /\ \/ /\ \E r \in TwMethodResponses(tw_data) : tw_json_response' = <<r>>
          /\ tw_pc' = "response"
          /\ tw_calls' = ExternalCall(tw_calls, "invoke", "method_name", TRUE)
          /\ UNCHANGED tw_result
       \/ /\ \E exc \in ExternalExceptions : TwRaise(exc, "invoke")
          /\ tw_calls' = ExternalCall(tw_calls, "invoke", "method_name", FALSE)
          /\ UNCHANGED tw_json_response
    /\ UNCHANGED <<tw_event, tw_data, tw_saved, tw_notified,
                   cm_vars, t2_vars, bw_vars, cw_vars>>

\* Lines 132-133: json_response["success"] on a string raises TypeError and
\* on a dict without the key KeyError; a response with success false raises
\* MethodFailure.
TwResponse ==
    /\ tw_pc = "response"
    /\ IF tw_json_response[1].type = "str"
       THEN TwRaise("TypeError", "string indices must be integers")
       ELSE IF "success" \notin DOMAIN tw_json_response[1].value
       THEN TwRaise("KeyError", "success")
       ELSE IF ~ tw_json_response[1].value.success
       THEN TwRaise("MethodFailure", tw_json_response[1].value.error)
       ELSE /\ tw_pc' = "save"
            /\ UNCHANGED tw_result
    /\ UNCHANGED <<tw_event, tw_data, tw_json_response, tw_saved, tw_notified, tw_calls,
                   cm_vars, t2_vars, bw_vars, cw_vars>>

\* Lines 137-139: aws_functions.save_data of the method's data.
TwSave ==
    /\ tw_pc = "save"
    /\ \/ /\ tw_saved' = Append(tw_saved, [file |-> "out_file_name",
                                           data |-> tw_json_response[1].value.data])
          /\ tw_pc' = "notify"
          /\ tw_calls' = ExternalCall(tw_calls, "save_data", "out_file_name", TRUE)
          /\ UNCHANGED tw_result
       \/ /\ \E exc \in ExternalExceptions : TwRaise(exc, "save_data")
          /\ tw_calls' = ExternalCall(tw_calls, "save_data", "out_file_name", FALSE)
          /\ UNCHANGED tw_saved
    /\ UNCHANGED <<tw_event, tw_data, tw_json_response, tw_notified,
                   cm_vars, t2_vars, bw_vars, cw_vars>>

\* Line 141: aws_functions.send_sns_message.
TwNotify ==
    /\ tw_pc = "notify"
    /\ \/ /\ tw_notified' = Append(tw_notified, [checkpoint |-> checkpoint,
                                                 message |-> "Aggregation - Top 2."])
          /\ tw_pc' = "return"
          /\ tw_calls' = ExternalCall(tw_calls, "send_sns_message", "sns_topic_arn", TRUE)
          /\ UNCHANGED tw_result
       \/ /\ \E exc \in ExternalExceptions : TwRaise(exc, "send_sns_message")
          /\ tw_calls' = ExternalCall(tw_calls, "send_sns_message", "sns_topic_arn", FALSE)
          /\ UNCHANGED tw_notified
    /\ UNCHANGED <<tw_event, tw_data, tw_json_response, tw_saved,
                   cm_vars, t2_vars, bw_vars, cw_vars>>

\* Line 154: the handler returns the configured checkpoint.
TwReturn ==
    /\ tw_pc = "return"
    /\ tw_result' = <<[success |-> TRUE, checkpoint |-> checkpoint]>>
    /\ tw_pc' = "done"
    /\ UNCHANGED <<tw_event, tw_data, tw_json_response, tw_saved, tw_notified, tw_calls,
                   cm_vars, t2_vars, bw_vars, cw_vars>>

NextColumn == ColumnMethod \/ ColumnMethodAgain

NextTop2 == T2Start \/ T2Period \/ T2TempCounty \/ T2County \/ T2Return

NextBricks ==
    \/ BwStart \/ BwGetDataframe \/ BwPrune \/ BwClassify \/ BwFold \/ BwInvoke
    \/ BwResponse \/ BwSaveRegion \/ BwSaveBricks \/ BwDeleteMessage \/ BwSendSns
    \/ BwReturn

NextColumnWrangler ==
    \/ CwStart \/ CwReadS3 \/ CwFilter \/ CwInvoke \/ CwResponse \/ CwSave \/ CwNotify
    \/ CwReturn

NextTop2Wrangler ==
    \/ TwStart \/ TwReadS3 \/ TwInvoke \/ TwResponse \/ TwSave \/ TwNotify \/ TwReturn

\* One invocation of one of the three wranglers.
NextWranglers == NextColumnWrangler \/ NextTop2Wrangler \/ NextBricks

InitColumn == CmInit /\ T2Idle /\ BwIdle /\ CwIdle /\ TwIdle

InitTop2 == T2Init /\ CmIdle /\ BwIdle /\ CwIdle /\ TwIdle

InitBricks == BwInit /\ CmIdle /\ T2Idle /\ CwIdle /\ TwIdle

InitColumnWrangler == CwInit /\ CmIdle /\ T2Idle /\ BwIdle /\ TwIdle

\* Exactly one of the three wranglers has been invoked.
InitWranglers ==
    /\ CmIdle /\ T2Idle
    /\ \/ CwInit /\ TwIdle /\ BwIdle
       \/ CwIdle /\ TwInit /\ BwIdle
       \/ CwIdle /\ TwIdle /\ BwInit

SpecColumn == InitColumn /\ [][NextColumn]_vars

SpecTop2 == InitTop2 /\ [][NextTop2]_vars

SpecBricks == InitBricks /\ [][NextBricks]_vars

SpecColumnWrangler == InitColumnWrangler /\ [][NextColumnWrangler]_vars

SpecWranglers == InitWranglers /\ [][NextWranglers]_vars

(***************************************************************************)
(* Claims about the column aggregation method                              *)
(***************************************************************************)
CmDone == cm_pc = "done"
CmOk == CmDone /\ cm_result.success

\* The distinct group keys of the event's input table.
CmInputKeys ==
    {<<cm_event.input_json[i][cm_event.additional_aggregated_column],
       cm_event.input_json[i][cm_event.aggregated_column]>> :
        i \in 1..Len(cm_event.input_json)}

\* The indices of the output rows carrying group key k.
CmOutRowsOf(k) ==
    {i \in 1..Len(cm_result.data) :
        /\ cm_result.data[i][cm_event.additional_aggregated_column] = k[1]
        /\ cm_result.data[i][cm_event.aggregated_column] = k[2]}

\* The indices of the input rows carrying group key k.
CmInRowsOf(k) ==
    {i \in 1..Len(cm_event.input_json) :
        /\ cm_event.input_json[i][cm_event.additional_aggregated_column] = k[1]
        /\ cm_event.input_json[i][cm_event.aggregated_column] = k[2]}

RECURSIVE SumOver(_, _, _)
SumOver(t, col, I) ==
    IF I = {} THEN 0
    ELSE LET i == CHOOSE x \in I : TRUE IN t[i][col] + SumOver(t, col, I \ {i})

\* C1: the table the column method returns has exactly one row for each
\* distinct (additional_aggregated_column, aggregated_column) pair of the
\* input and no other row, so it has as many rows as the input has distinct
\* group keys and never more rows than the input.
C1_OneRowPerGroupKey ==
    CmOk =>
        /\ \A k \in CmInputKeys : Cardinality(CmOutRowsOf(k)) = 1
        /\ \A i \in 1..Len(cm_result.data) :
              <<cm_result.data[i][cm_event.additional_aggregated_column],
                cm_result.data[i][cm_event.aggregated_column]>> \in CmInputKeys
        /\ Len(cm_result.data) = Cardinality(CmInputKeys)
        /\ Len(cm_result.data) <= Len(cm_event.input_json)

\* C1 witness: an input with two rows of one group key and a row of another
\* has been aggregated.
C1_Witness ==
    /\ CmOk
    /\ Len(cm_event.input_json) = 3
    /\ Cardinality(CmInputKeys) = 2
    /\ Len(cm_result.data) = 2

\* The reduction of total_column over the input rows with index in I, stated
\* on index sets.
CmExpected(I) ==
    LET t == cm_event.input_json
        col == cm_event.total_column
        vals == {t[i][col] : i \in I}
    IN CASE cm_event.aggregation_type = "sum" -> SumOver(t, col, I)
         [] cm_event.aggregation_type = "count" -> Cardinality(I)
         [] cm_event.aggregation_type = "nunique" -> Cardinality(vals)
         [] cm_event.aggregation_type = "max" ->
                CHOOSE v \in vals : \A w \in vals : w <= v

\* C2: every output row has the two group-key columns and cell_total_column
\* and nothing else; cell_total_column holds the reduction of total_column
\* over exactly the input rows with the row's group key; when
\* cell_total_column differs from total_column no column is named total_column.
C2_RenamedGroupTotal ==
    CmOk =>
        \A i \in 1..Len(cm_result.data) :
            LET row == cm_result.data[i]
                k == <<row[cm_event.additional_aggregated_column],
                       row[cm_event.aggregated_column]>>
            IN /\ DOMAIN row = {cm_event.additional_aggregated_column,
                                cm_event.aggregated_column,
                                cm_event.cell_total_column}
               /\ row[cm_event.cell_total_column] = CmExpected(CmInRowsOf(k))
               /\ (cm_event.cell_total_column # cm_event.total_column
                      => cm_event.total_column \notin DOMAIN row)

\* C2 witness: a group of three input rows holding two distinct values has
\* been reduced by nunique to 2 under the renamed column.
C2_Witness ==
    /\ CmOk
    /\ cm_event.cell_total_column = "county_total"
    /\ cm_event.aggregation_type = "nunique"
    /\ \E i \in 1..Len(cm_result.data) :
          LET row == cm_result.data[i]
              I == CmInRowsOf(<<row.region, row.county>>)
          IN /\ Cardinality(I) = 3
             /\ row.county_total = 2

(***************************************************************************)
(* Claims about calc_top_two                                               *)
(***************************************************************************)
\* The handler has returned the ranked table.
T2Ranked == t2_pc = "done" /\ t2_result.type = "str"

\* The indices of the input rows in the (period, county) partition of row i.
T2PartitionOf(i) ==
    {j \in 1..Len(t2_event) :
        /\ t2_event[j].period = t2_event[i].period
        /\ t2_event[j].county = t2_event[i].county}

\* C3: for every (period, county) partition of at least two rows, every row
\* of the partition carries largest_contributor = the greatest Q608_total of
\* the partition and second_largest_contributor = the second greatest (the
\* greatest again on a tie).
C3_TopTwoBroadcast ==
    T2Ranked =>
        \A i \in 1..Len(t2_event) :
            LET P == T2PartitionOf(i) IN
            Cardinality(P) >= 2 =>
                \E a \in P : \E b \in P \ {a} :
                    /\ t2_event[a].Q608_total >= t2_event[b].Q608_total
                    /\ \A k \in P \ {a, b} :
                          t2_event[k].Q608_total <= t2_event[b].Q608_total
                    /\ t2_result.value[i].largest_contributor = t2_event[a].Q608_total
                    /\ t2_result.value[i].second_largest_contributor =
                          t2_event[b].Q608_total

\* C3 witness: the partition with values [10, 30, 20] has 30 and 20 on all
\* three of its rows.
C3_Witness ==
    /\ T2Ranked
    /\ Len(t2_event) = 3
    /\ T2PartitionOf(1) = {1, 2, 3}
    /\ [i \in 1..3 |-> t2_event[i].Q608_total] = <<10, 30, 20>>
    /\ \A i \in 1..3 :
          /\ t2_result.value[i].largest_contributor = 30
          /\ t2_result.value[i].second_largest_contributor = 20

\* C4: in every table, a (period, county) partition of exactly one row with
\* value v has largest_contributor = v and second_largest_contributor = 0 on
\* that row.
C4_SingleRowSecondIsZero ==
    T2Ranked =>
        \A i \in 1..Len(t2_event) :
            T2PartitionOf(i) = {i} =>
                /\ t2_result.value[i].largest_contributor = t2_event[i].Q608_total
                /\ t2_result.value[i].second_largest_contributor = 0

(***************************************************************************)
(* Claims about the bricks wrangler                                        *)
(***************************************************************************)
\* The sum of the six category-prefixed columns of an input row.
BwPruneSum(r) ==
    r.clay_X + r.clay_Y + r.concrete_X + r.concrete_Y + r.sandlime_X + r.sandlime_Y

\* The indices of the input rows whose prune-sum is not zero.
BwSurvivors == {i \in 1..Len(bw_input) : BwPruneSum(bw_input[i]) # 0}

\* The index of the input row that is the j-th survivor.
BwNth(j) ==
    CHOOSE i \in BwSurvivors : Cardinality({x \in BwSurvivors : x <= i}) = j

BwPrefixedColumns ==
    {"clay_X", "clay_Y", "concrete_X", "concrete_Y", "sandlime_X", "sandlime_Y"}

C6_FirstPositiveCategory ==
    bw_pc = "fold" =>
        \A j \in 1..Len(bw_data) :
            LET r == bw_data[j]
                clay == r.clay_X + r.clay_Y
                concrete == r.concrete_X + r.concrete_Y
                sandlime == r.sandlime_X + r.sandlime_Y
            IN /\ clay > 0 => r.brick_type = 3
               /\ (clay <= 0 /\ concrete > 0) => r.brick_type = 2
               /\ (clay <= 0 /\ concrete <= 0 /\ sandlime > 0) => r.brick_type = 4

\* C6 witness: a row with a positive clay block and a positive concrete block
\* is clay, and a row whose clay columns cancel is sandlime.
C6_Witness ==
    /\ bw_pc = "fold"
    /\ \E j \in 1..Len(bw_data) :
          /\ bw_data[j].clay_Y = 1 /\ bw_data[j].concrete_X = 5
          /\ bw_data[j].brick_type = 3
    /\ \E j \in 1..Len(bw_data) :
          /\ bw_data[j].clay_X = 1 /\ bw_data[j].clay_Y = -1
          /\ bw_data[j].brick_type = 4

\* C7: after the fold every surviving row with a category holds, in each
\* generic column, the value of that category's prefixed column, and no
\* prefixed column is left in the table passed on.
C7_FoldCopiesCategoryColumns ==
    bw_pc = "invoke" =>
        /\ bw_payload.data = bw_data
        /\ \A j \in 1..Len(bw_data) :
              LET r == bw_input[BwNth(j)]
                  d == bw_data[j]
              IN /\ DOMAIN d \cap BwPrefixedColumns = {}
                 /\ d.brick_type = 3 => (d.X = r.clay_X /\ d.Y = r.clay_Y)
                 /\ d.brick_type = 2 => (d.X = r.concrete_X /\ d.Y = r.concrete_Y)
                 /\ d.brick_type = 4 => (d.X = r.sandlime_X /\ d.Y = r.sandlime_Y)

\* C7 witness: a row with only clay_X = 7 has category 3 and X = 7, next to a
\* row with two filled blocks.
C7_Witness ==
    /\ bw_pc = "invoke"
    /\ Len(bw_data) = 2
    /\ bw_input[BwNth(1)].clay_X = 7
    /\ bw_data[1].brick_type = 3 /\ bw_data[1].X = 7 /\ bw_data[1].Y = 0
    /\ bw_input[BwNth(2)].concrete_X = 5
    /\ bw_data[2].brick_type = 3 /\ bw_data[2].X = 0 /\ bw_data[2].Y = 1

BwBricksSaved == "out_file_name_bricks" \in DOMAIN bw_s3
BwRegionSaved == "out_file_name_region" \in DOMAIN bw_s3

\* The indices of the folded rows with identifier k and a category in types.
BwFoldedOf(k, types) ==
    {j \in 1..Len(bw_payload.data) :
        /\ bw_payload.data[j].enterprise_reference = k
        /\ bw_payload.data[j].brick_type \in types}

\* C8: in the saved category output, for each identifier k with a clay or
\* sandlime row there is one row of category 1, and every row of category 1
\* holds the sums over the folded clay and sandlime rows of its identifier;
\* the concrete rows are summed under category 2 only.
C8_MergedCategoryTotals ==
    BwBricksSaved =>
        LET out == bw_s3["out_file_name_bricks"] IN
        /\ \A j \in 1..Len(bw_payload.data) :
              bw_payload.data[j].brick_type \in {3, 4} =>
                  Cardinality({i \in 1..Len(out) :
                      /\ out[i].brick_type = 1
                      /\ out[i].enterprise_reference =
                            bw_payload.data[j].enterprise_reference}) = 1
        /\ \A i \in 1..Len(out) :
              LET k == out[i].enterprise_reference IN
              /\ out[i].brick_type = 1 =>
                    /\ out[i].X = SumOver(bw_payload.data, "X", BwFoldedOf(k, {3, 4}))
                    /\ out[i].Y = SumOver(bw_payload.data, "Y", BwFoldedOf(k, {3, 4}))
              /\ out[i].brick_type = 2 =>
                    /\ out[i].X = SumOver(bw_payload.data, "X", BwFoldedOf(k, {2}))
                    /\ out[i].Y = SumOver(bw_payload.data, "Y", BwFoldedOf(k, {2}))

\* C8 witness: a clay, a sandlime and a concrete row of one identifier give a
\* row of category 1 with the clay and sandlime sums and a row of category 2
\* with the concrete values.
C8_Witness ==
    /\ BwBricksSaved
    /\ Cardinality(BwFoldedOf(1, {3})) = 1
    /\ Cardinality(BwFoldedOf(1, {4})) = 1
    /\ Cardinality(BwFoldedOf(1, {2})) = 1
    /\ \E i \in 1..Len(bw_s3["out_file_name_bricks"]) :
          LET o == bw_s3["out_file_name_bricks"][i]
          IN o.brick_type = 1 /\ o.enterprise_reference = 1 /\ o.X = 7 /\ o.Y = 3
    /\ \E i \in 1..Len(bw_s3["out_file_name_bricks"]) :
          LET o == bw_s3["out_file_name_bricks"][i]
          IN o.brick_type = 2 /\ o.enterprise_reference = 1 /\ o.X = 2 /\ o.Y = 1

\* The frame the region method returned.
BwReturned == bw_json_response[1].data

\* The indices of the returned rows with identifiers (e, r).
BwReturnedOf(e, r) ==
    {j \in 1..Len(BwReturned) :
        BwReturned[j].enterprise_reference = e /\ BwReturned[j].region = r}

RECURSIVE SumOverSkipNaN(_, _, _)
SumOverSkipNaN(t, col, I) ==
    IF I = {} THEN 0
    ELSE LET i == CHOOSE x \in I : TRUE
         IN (IF t[i][col] = NaN THEN 0 ELSE t[i][col]) + SumOverSkipNaN(t, col, I \ {i})

\* C9: the saved region output has exactly one row for every combination of
\* the identifier columns other than the category id that occurs in the
\* returned table, and each tracked column of the row is the sum of the
\* column over the returned rows of the combination, whatever their category.
C9_RegionTotals ==
    BwRegionSaved =>
        LET out == bw_s3["out_file_name_region"] IN
        /\ \A i \in 1..Len(out) :
              /\ DOMAIN out[i] = {"enterprise_reference", "region", "X", "Y"}
              /\ BwReturnedOf(out[i].enterprise_reference, out[i].region) # {}
              /\ out[i].X = SumOverSkipNaN(BwReturned, "X",
                     BwReturnedOf(out[i].enterprise_reference, out[i].region))
              /\ out[i].Y = SumOverSkipNaN(BwReturned, "Y",
                     BwReturnedOf(out[i].enterprise_reference, out[i].region))
        /\ \A j \in 1..Len(BwReturned) :
              Cardinality({i \in 1..Len(out) :
                  /\ out[i].enterprise_reference = BwReturned[j].enterprise_reference
                  /\ out[i].region = BwReturned[j].region}) = 1

\* C9 witness: a clay and a concrete row of one (enterprise, region) pair are
\* summed into one row, and the regionless rows into another.
C9_Witness ==
    /\ BwRegionSaved
    /\ Len(BwReturned) = 4
    /\ \E a \in BwReturnedOf(1, 1) : \E b \in BwReturnedOf(1, 1) :
          BwReturned[a].brick_type = 3 /\ BwReturned[b].brick_type = 2
    /\ bw_s3["out_file_name_region"] =
          << [enterprise_reference |-> 1, region |-> 1, X |-> 9, Y |-> 1],
             [enterprise_reference |-> 1, region |-> 9, X |-> 9, Y |-> 1] >>

\* C10: when the method's response has success = false the invocation ends
\* by raising LambdaFailure built from the method's error, and nothing has
\* been saved, deleted or notified.
C10_MethodFailureSavesNothing ==
    (Len(bw_json_response) = 1 /\ ~ bw_json_response[1].success) =>
        /\ bw_pc \in {"response", "failed"}
        /\ DOMAIN bw_s3 = {}
        /\ ~ bw_deleted
        /\ ~ bw_notified
        /\ bw_pc = "failed" =>
              bw_result = <<[raised |-> "LambdaFailure",
                             error_message |->
                                 HandleException("MethodFailure",
                                                 bw_json_response[1].error)]>>

\* C10 witness: the invocation has failed on a response with success = false.
C10_Witness ==
    /\ bw_pc = "failed"
    /\ Len(bw_json_response) = 1
    /\ ~ bw_json_response[1].success
    /\ bw_result[1].raised = "LambdaFailure"

\* The request names a column the input frame does not have.
CmMissingColumn ==
    ~ ({cm_event.additional_aggregated_column, cm_event.aggregated_column,
        cm_event.total_column} \subseteq FrameColumns(cm_event.input_json))

\* The request names a reduction pandas does not have.
CmUnknownReduction == cm_event.aggregation_type \notin {"sum", "count", "nunique", "max"}

\* C12: a request whose group-by or value column is absent, or whose
\* reduction is unrecognised, is answered with {success: false, error} and no
\* data field; an absent column is reported as a "Key Error", an unrecognised
\* reduction (all columns present) as a "General Error".
C12_FailureResultByClass ==
    (CmDone /\ (CmMissingColumn \/ CmUnknownReduction)) =>
        /\ DOMAIN cm_result = {"success", "error"}
        /\ cm_result.success = FALSE
        /\ Len(cm_result.error) > 0
        /\ CmMissingColumn =>
              /\ "Key Error" \in Range(cm_result.error)
              /\ "General Error" \notin Range(cm_result.error)
        /\ ~ CmMissingColumn =>
              /\ "General Error" \in Range(cm_result.error)
              /\ "Key Error" \notin Range(cm_result.error)

\* C12 witness: a non-empty input without the value column has been answered.
C12_Witness ==
    /\ CmDone
    /\ Len(cm_event.input_json) > 0
    /\ cm_event.aggregated_column = "county"
    /\ cm_event.total_column = "Q607_total"
    /\ cm_event.aggregation_type = "sum"
    /\ cm_result.success = FALSE

\* The handler has answered a request made of its own output.
CmAgain == cm_pc = "again"

\* C14 as stated: aggregating the output again, with any accepted reduction,
\* returns the same rows with the same values.
C14_ReapplyIsIdentity ==
    CmAgain => (cm_again.success /\ cm_again.data = cm_result.data)

\* C14 amended: aggregating the output again returns the same rows with the
\* same values when the reduction is sum or max; when it is count or nunique
\* it returns the same group keys, each with the value 1.
C14_ReapplySumMaxIdentity ==
    CmAgain =>
        /\ cm_again.success
        /\ cm_event.aggregation_type \in {"sum", "max"} =>
              cm_again.data = cm_result.data
        /\ cm_event.aggregation_type \in {"count", "nunique"} =>
              cm_again.data =
                  [i \in 1..Len(cm_result.data) |->
                      [cm_result.data[i] EXCEPT ![cm_event.cell_total_column] = 1]]

\* C14 witness: a sum over a group of two rows has been aggregated again.
C14_Witness ==
    /\ CmAgain
    /\ cm_event.aggregation_type = "sum"
    /\ Len(cm_result.data) < Len(cm_event.input_json)
    /\ cm_again.success

\* The top-two handler has ended.
T2Done == t2_pc = "done"

\* C13: an input that lacks one of the columns period, county, Q608_total or
\* region is answered with {success: false, error} whose message is the
\* "Bad data encountered" one of the AttributeError clause.
C13_MissingColumnIsBadData ==
    (T2Done /\ ~ (T2Required \subseteq FrameColumns(t2_event))) =>
        /\ t2_result.type = "dict"
        /\ t2_result.value.success = FALSE
        /\ "Bad data encountered" \in Range(t2_result.value.error)

\* C20: every row that survives pruning is assigned one of the category ids
\* 3, 2 and 4: calculate_row_type never leaves the id of a row with a non-zero
\* prune-sum undefined.
C20_SurvivorHasCategory ==
    bw_pc = "fold" =>
        \A j \in 1..Len(bw_data) :
            /\ BwPruneSum(bw_input[BwNth(j)]) # 0
            /\ bw_data[j].brick_type \in {3, 2, 4}

\* The column wrangler has returned.
CwDone == cw_pc = "done"

\* C16: when the method's response has success = false the column wrangler
\* returns {success: false, error: E} where E holds the method's error
\* message, and it has performed neither the save nor the notification.
C16_MethodErrorReturned ==
    (Len(cw_json_response) = 1 /\ ~ cw_json_response[1].success) =>
        /\ cw_pc \in {"response", "done"}
        /\ cw_saved = <<>>
        /\ cw_notified = <<>>
        /\ \A i \in 1..Len(cw_calls) : cw_calls[i].call \notin {"save_data", "send_sns_message"}
        /\ CwDone =>
              /\ DOMAIN cw_result[1] = {"success", "error"}
              /\ cw_result[1].success = FALSE
              /\ \A part \in Range(cw_json_response[1].error) :
                    part \in Range(cw_result[1].error)

\* C16 witness: the wrangler has returned after the method reported an
\* unknown reduction.
C16_Witness ==
    /\ CwDone
    /\ Len(cw_json_response) = 1
    /\ ~ cw_json_response[1].success
    /\ "General Error" \in Range(cw_json_response[1].error)
    /\ cw_result[1].success = FALSE

\* The try block of the column wrangler ended with an exception.
CwRaised == Len(cw_exception) = 1

\* The exception is the ValueError raised for a missing environment variable.
CwEnvironmentError ==
    /\ cw_exception[1].class = "ValueError"
    /\ cw_exception[1].args = "Error validating environment params"

\* C17 as stated: the column wrangler never raises; every exception yields
\* {success: false, error: message}, where the message contains 'Error
\* validating environment params' for a missing environment variable, 'Key
\* Error' for a KeyError, 'AWS Error' for a client error, 'Incomplete Lambda
\* response' for an incomplete read and 'General Error' for any other
\* exception.
C17_MessageByClass ==
    CwRaised =>
        /\ CwDone
        /\ DOMAIN cw_result[1] = {"success", "error"}
        /\ cw_result[1].success = FALSE
        /\ LET class == cw_exception[1].class
               parts == Range(cw_result[1].error)
           IN CASE CwEnvironmentError -> "Error validating environment params" \in parts
                [] class = "KeyError" -> "Key Error" \in parts
                [] class = "ClientError" -> "AWS Error" \in parts
                [] class = "IncompleteReadError" -> "Incomplete Lambda response" \in parts
                [] OTHER -> "General Error" \in parts

\* C17 amended: the column wrangler never raises; every exception yields
\* {success: false, error: message}, where the message contains 'Parameter
\* validation error' for every ValueError (and 'Error validating environment
\* params' too when it is the one for a missing environment variable), 'Key
\* Error' for a KeyError, 'AWS Error' for a client error, 'Incomplete Lambda
\* response' for an incomplete read, is the method's own error message for a
\* MethodFailure, and contains 'General Error' for any other exception.
C17_MessageByClassWithValueError ==
    CwRaised =>
        /\ CwDone
        /\ DOMAIN cw_result[1] = {"success", "error"}
        /\ cw_result[1].success = FALSE
        /\ LET class == cw_exception[1].class
               parts == Range(cw_result[1].error)
           IN CASE class = "ValueError" ->
                      /\ "Parameter validation error" \in parts
                      /\ CwEnvironmentError =>
                            "Error validating environment params" \in parts
                [] class = "KeyError" -> "Key Error" \in parts
                [] class = "ClientError" -> "AWS Error" \in parts
                [] class = "IncompleteReadError" -> "Incomplete Lambda response" \in parts
                [] class = "MethodFailure" ->
                      cw_result[1].error = cw_json_response[1].error
                [] OTHER -> "General Error" \in parts

\* C17 witness: the wrangler has returned after int(period) raised ValueError.
C17_Witness ==
    /\ CwDone
    /\ CwRaised
    /\ cw_exception[1].class = "ValueError"
    /\ ~ CwEnvironmentError
    /\ cw_event.period = BadPeriod
    /\ cw_calls = <<[call |-> "read_dataframe_from_s3", sink |-> "in_file_name", ok |-> TRUE]>>
    /\ cw_result[1].success = FALSE

\* C18: when the read, the method (success = true), the save and the
\* notification all succeed, the column wrangler returns {success: true,
\* checkpoint: the configured checkpoint}, having saved the method's data
\* exactly once and sent exactly one notification, the save before the
\* notification.
C18_HappyPath ==
    (CwDone /\ ~ CwRaised) =>
        /\ cw_result = <<[success |-> TRUE, checkpoint |-> checkpoint]>>
        /\ Len(cw_saved) = 1
        /\ cw_saved[1].data = cw_json_response[1].data
        /\ cw_json_response[1] = ColumnMethodResult(cw_payload[1])
        /\ Len(cw_notified) = 1
        /\ cw_notified[1].checkpoint = checkpoint
        /\ [i \in 1..Len(cw_calls) |-> cw_calls[i].call] =
              <<"read_dataframe_from_s3", "invoke", "save_data", "send_sns_message">>
        /\ \A i \in 1..Len(cw_calls) : cw_calls[i].ok

\* C18 witness: the wrangler has returned success after saving a total of
\* two rows of the period.
C18_Witness ==
    /\ CwDone
    /\ cw_result[1].success
    /\ Len(cw_data) = 2
    /\ Len(cw_saved) = 1
    /\ Len(cw_saved[1].data) = 1
    /\ cw_saved[1].data[1].county_total = 3
    /\ Len(cw_notified) = 1

\* The names of the calls of a call log, in order.
CallNames(calls) == [i \in 1..Len(calls) |-> calls[i].call]

\* Every call of a call log returned.
AllOk(calls) == \A i \in 1..Len(calls) : calls[i].ok

\* The value is the raising of LambdaFailure with a non-empty message.
IsLambdaFailure(result) ==
    /\ Len(result) = 1
    /\ DOMAIN result[1] = {"raised", "error_message"}
    /\ result[1].raised = "LambdaFailure"
    /\ Len(result[1].error_message) > 0

\* The value is the return of {success: true, checkpoint}.
IsSuccess(result) == result = <<[success |-> TRUE, checkpoint |-> checkpoint]>>

\* C19: an invocation of the top-two wrangler or of the bricks wrangler ends
\* in exactly one of two ways: it returns {success: true, checkpoint} after
\* every step succeeded, or it raises LambdaFailure with a non-empty message;
\* it never returns a value with success = false and never returns success
\* after a step raised.
C19_SuccessOrLambdaFailure ==
    /\ tw_pc \notin {"done", "failed"} => tw_result = <<>>
    /\ tw_pc = "done" =>
          /\ IsSuccess(tw_result)
          /\ AllOk(tw_calls)
          /\ CallNames(tw_calls) =
                <<"read_dataframe_from_s3", "invoke", "save_data", "send_sns_message">>
          /\ tw_json_response[1].type = "dict"
          /\ tw_json_response[1].value.success
    /\ tw_pc = "failed" => IsLambdaFailure(tw_result)
    /\ ~ AllOk(tw_calls) => IsLambdaFailure(tw_result)
    /\ bw_pc \notin {"done", "failed"} => bw_result = <<>>
    /\ bw_pc = "done" =>
          /\ IsSuccess(bw_result)
          /\ AllOk(bw_calls)
          /\ CallNames(bw_calls) =
                IF bw_receipt_handler # None
                THEN <<"get_dataframe", "invoke", "save_to_s3", "save_to_s3",
                       "delete_message", "send_sns_message">>
                ELSE <<"get_dataframe", "invoke", "save_to_s3", "save_to_s3",
                       "send_sns_message">>
          /\ bw_json_response[1].success
    /\ bw_pc = "failed" => IsLambdaFailure(bw_result)
    /\ ~ AllOk(bw_calls) => IsLambdaFailure(bw_result)

\* C19 witness: the top-two wrangler has raised LambdaFailure on a response
\* that has no success key.
C19_Witness ==
    /\ tw_pc = "failed"
    /\ Len(tw_json_response) = 1
    /\ tw_json_response[1].type = "dict"
    /\ "success" \notin DOMAIN tw_json_response[1].value
    /\ IsLambdaFailure(tw_result)
    /\ tw_result[1].error_message[1] = "KeyError"
    /\ AllOk(tw_calls)

\* No two calls of the log are the same function on the same sink, and no
\* call follows one that raised.
AtMostOnceNoRetry(calls) ==
    /\ \A i \in 1..Len(calls) : \A j \in 1..Len(calls) :
          (i # j) => ~ (calls[i].call = calls[j].call /\ calls[i].sink = calls[j].sink)
    /\ Cardinality({i \in 1..Len(calls) : calls[i].call = "invoke"}) <= 1
    /\ \A i \in 1..Len(calls) : (~ calls[i].ok) => i = Len(calls)

\* C15: in every wrangler invocation the method is invoked at most once and
\* each storage read or write, queue operation and notification is attempted
\* at most once per sink; once an external call has failed the invocation
\* attempts no further external call.
C15_AtMostOnceNoRetry ==
    /\ AtMostOnceNoRetry(cw_calls)
    /\ AtMostOnceNoRetry(tw_calls)
    /\ AtMostOnceNoRetry(bw_calls)
    /\ (cw_pc = "done" /\ ~ AllOk(cw_calls)) => cw_result[1].success = FALSE
    /\ (bw_pc = "done" \/ tw_pc = "done") => (AllOk(bw_calls) /\ AllOk(tw_calls))

\* C15 witness: the bricks wrangler has ended on a failed second save, after
\* one read, one invocation and one save.
C15_Witness ==
    /\ bw_pc = "failed"
    /\ CallNames(bw_calls) = <<"get_dataframe", "invoke", "save_to_s3", "save_to_s3">>
    /\ ~ bw_calls[4].ok
    /\ bw_calls[3].sink # bw_calls[4].sink

\* C11: in every wrangler (column, top two, bricks) an invocation that ends
\* in failure has persisted no output, whichever step failed: the read, the
\* transform, the method invocation, the first save, the second save, the
\* queue delete or the notification.
C11_FailureSavesNothing ==
    /\ (CwDone /\ cw_result[1].success = FALSE) => cw_saved = <<>>
    /\ tw_pc = "failed" => tw_saved = <<>>
    /\ bw_pc = "failed" => DOMAIN bw_s3 = {}

\* C21: within each period the de-duplication of the county values is
\* complete before the county loop starts, so each (period, county) partition
\* is ranked and written exactly once per invocation.
C21_PartitionRankedOnce ==
    /\ \A i \in 1..Len(t2_ranked) : \A j \in 1..Len(t2_ranked) :
          (i # j) => t2_ranked[i] # t2_ranked[j]
    /\ (/\ t2_pc = "county"
        /\ t2_loop.ci <= Len(t2_loop.county_list)
        /\ T2Required \subseteq FrameColumns(t2_event)) =>
          Range(t2_loop.county_list) = Range(t2_loop.temp_county_list)
    /\ T2Ranked =>
          \A j \in 1..Len(t2_event) :
              <<t2_event[j].period, t2_event[j].county>> \in Range(t2_ranked)

\* The position of the first call of the given name in the bricks call log, 0
\* if there is none.
BwCallAt(call) ==
    IF \E i \in 1..Len(bw_calls) : bw_calls[i].call = call
    THEN CHOOSE i \in 1..Len(bw_calls) : bw_calls[i].call = call
    ELSE 0

\* C22: in the bricks wrangler the queue message is deleted only after both
\* the region output and the category output have been saved, and the
\* notification is sent only after the deletion step; an invocation that
\* fails before the deletion step has deleted no message and sent no
\* notification.
C22_DeleteAfterSavesNotifyAfterDelete ==
    /\ BwCallAt("delete_message") > 0 =>
          /\ DOMAIN bw_s3 = {"out_file_name_region", "out_file_name_bricks"}
          /\ \A i \in 1..Len(bw_calls) :
                bw_calls[i].call = "save_to_s3" =>
                    (bw_calls[i].ok /\ i < BwCallAt("delete_message"))
    /\ bw_deleted => (BwCallAt("delete_message") > 0 /\ bw_receipt_handler # None)
    /\ BwCallAt("send_sns_message") > 0 =>
          /\ DOMAIN bw_s3 = {"out_file_name_region", "out_file_name_bricks"}
          /\ IF bw_receipt_handler # None
             THEN /\ bw_deleted
                  /\ BwCallAt("delete_message") < BwCallAt("send_sns_message")
             ELSE BwCallAt("delete_message") = 0
    /\ bw_notified => BwCallAt("send_sns_message") > 0
    /\ (bw_pc = "failed" /\ BwCallAt("delete_message") = 0
          /\ BwCallAt("send_sns_message") = 0) =>
          (~ bw_deleted /\ ~ bw_notified)
    /\ (bw_pc = "failed" /\ ~ bw_deleted) => ~ bw_notified

\* C22 witness: the message has been deleted after the two saves and the
\* notification has then failed.
C22_Witness ==
    /\ bw_pc = "failed"
    /\ bw_deleted
    /\ ~ bw_notified
    /\ CallNames(bw_calls) = <<"get_dataframe", "invoke", "save_to_s3", "save_to_s3",
                               "delete_message", "send_sns_message">>

\* C23: on success the top-two method's response is a record with success =
\* true and a data field holding the ranked table; so when the method has
\* ranked its input and the wrangler reads that response, the wrangler goes
\* on to save the data and notify, and unless one of those calls fails it
\* returns success.
C23_SuccessResponseIsRead ==
    /\ T2Ranked =>
          /\ t2_result.type = "dict"
          /\ DOMAIN t2_result.value = {"success", "data"}
          /\ t2_result.value.success = TRUE
    /\ (/\ Len(tw_json_response) = 1
        /\ tw_json_response[1] = T2SuccessResponse(tw_data)
        /\ tw_pc = "failed") =>
          (~ AllOk(tw_calls) /\ CallNames(tw_calls)[Len(tw_calls)] \in
                                    {"save_data", "send_sns_message"})

====
